---- MODULE Spec2Model ----
(***************************************************************************)
(* State-machine model of the RayforceDB WASM binding layer                *)
(* (src/README.md lines 307-1204 hold the C translation unit main.c).      *)
(* main and strof_obj are modelled from src/src/main.c.                    *)
(*                                                                         *)
(* The host calls the exported functions one at a time (single-threaded,   *)
(* synchronous), so every exported function is one atomic action.  Each    *)
(* action records the call it served in `call` (operation, arguments,      *)
(* returned value) and the payload addresses it stored to in `wr`.         *)
(***************************************************************************)
EXTENDS Integers, Sequences, FiniteSets, TLC

VARIABLES
    heap,         \* obj_p address -> object header (live, type, rc, len, val)
    mem,          \* linear memory: payload address -> stored element value
    cmd_counter,  \* static i64_t __CMD_COUNTER
    eval_name,    \* source name handed to ray_eval_str by the last eval_cmd
    autos,        \* history: auto-named evaluations since the last reset
    call,         \* the last exported call: [op, h, x, y, ret]
    wr,           \* history: payload addresses stored to by the last call
    fault,        \* TRUE once the module has trapped (out-of-bounds access)
    csv,          \* what the last read_csv call allocated, released and built
    symtab,       \* the engine's symbol table: id -> interned text
    runtime,      \* the engine runtime main created, and its arguments
    pc,           \* where main stands: start, selftest, banner, ready, exit
    last_formatted, \* static obj_p last_formatted
    ev            \* history: objects the last eval_cmd made, passed, released

\* The state of the process that only main and strof_obj touch.
proc == <<runtime, pc, last_formatted>>

vars == <<heap, mem, cmd_counter, eval_name, autos, call, wr, fault, csv,
          symtab, runtime, pc, last_formatted, ev>>

(***************************************************************************)
(* Bounds of the model                                                     *)
(***************************************************************************)
MaxObjs == 2      \* object slots the allocator can hand out
MaxLen  == 2      \* longest vector the host constructs
MaxRc   == 2      \* highest reference count the host builds up
MaxCmd  == 3      \* auto-named evaluations between two resets

(***************************************************************************)
(* Program constants                                                       *)
(***************************************************************************)
NULL == 0             \* the C null pointer
NULL_OBJ == NULL      \* the null object handle handed back by the binding
B8_TRUE  == 1
B8_FALSE == 0

TYPE_LIST      == 0
TYPE_B8        == 1
TYPE_U8        == 2
TYPE_I16       == 3
TYPE_I32       == 4
TYPE_I64       == 5
TYPE_SYMBOL    == 6
TYPE_DATE      == 7
TYPE_TIME      == 8
TYPE_TIMESTAMP == 9
TYPE_F64       == 10
TYPE_GUID      == 11
TYPE_C8        == 12
TYPE_TABLE     == 98
TYPE_DICT      == 99
\* The three codes below are set by the engine's header, which is not part of
\* this repository; the binding only needs them distinct from the codes above.
TYPE_LAMBDA    == 100
TYPE_NULL      == 126
TYPE_ERR       == 127

SizeofObjP == 4       \* sizeof(obj_p) on the wasm32 target
SizeofI64  == 8       \* sizeof(i64_t)
SizeofI32  == 4       \* sizeof(i32_t)
SizeofF64  == 8       \* sizeof(f64_t)
ObjHeaderBytes == 16  \* sizeof(struct obj_t): the payload is stored after it
AutoNameCap == 32     \* c8_t auto_name[32]
\* A payload cell nobody has stored to yet holds an indeterminate value.
Indet == -1

I8 == -128 .. 127     \* i8_t
Vals == {0, 1}         \* the element values the host stores

(***************************************************************************)
(* Object model                                                            *)
(***************************************************************************)
\* Every object lives in a slot wide enough for the header and the longest
\* payload; obj_p values are the slot addresses.
SlotBytes == ObjHeaderBytes + MaxLen * SizeofI64
Handles == {s * SlotBytes : s \in 1 .. MaxObjs}

DeadObj == [live |-> FALSE, type |-> 0, rc |-> 0, len |-> 0, val |-> 0]

Live == {h \in Handles : heap[h].live}
Free == Handles \ Live

\* Handles the host can pass: NULL or a handle it still owns.
HostHandles == {NULL} \cup Live

IS_ATOM(obj) == heap[obj].type < 0
IS_VECTOR(obj) == heap[obj].type > 0
IS_ERR(obj) == heap[obj].type = TYPE_ERR
is_null(obj) == IF heap[obj].type = TYPE_NULL THEN B8_TRUE ELSE B8_FALSE

\* AS_C8(obj) / AS_I64(obj) / ...: the payload starts right after the header.
AS_C8(obj) == obj + ObjHeaderBytes

\* Storage stride of the element types whose C type the binding names.
sizeof_elem(type) ==
    CASE type = TYPE_I64 -> SizeofI64
      [] type = TYPE_I32 -> SizeofI32
      [] type = TYPE_F64 -> SizeofF64
      [] OTHER -> 1

\* AS_T(obj)[i]
ElemAddr(obj, i) == AS_C8(obj) + i * sizeof_elem(heap[obj].type)
ElemAt(obj, i) == mem[ElemAddr(obj, i)]

\* The payload cells of a vector of `len` elements at `obj`.
PayloadCells(obj, type, len) ==
    {AS_C8(obj) + i * sizeof_elem(type) : i \in 0 .. len - 1}

Call(op, h, x, y, ret) == [op |-> op, h |-> h, x |-> x, y |-> y, ret |-> ret]

\* What a read_csv call leaves behind: the kind of its outcome (with the
\* message of a user error), the table
\* built (names: the symbol ids of the name vector; types: type_arr;
\* colkinds: the kind of each column object; cols: the cells of each column;
\* rows: the data lines), whether the row parser was invoked, and for each
\* object or buffer the call allocated how often it was allocated and
\* released (ledger), with the number of list slots released that nobody
\* had stored to (wild).
CsvOutcome(kind, names, types, colkinds, cols, rows, parsed, ledger, wild) ==
    [kind |-> kind, names |-> names, types |-> types, colkinds |-> colkinds,
     cols |-> cols, rows |-> rows, parsed |-> parsed, ledger |-> ledger,
     wild |-> wild]

\* No read_csv call has been served yet.
NoCsv == CsvOutcome(<<"none", "">>, << >>, << >>, << >>, << >>, 0, FALSE, << >>, 0)

\* runtime_create(argc, argv) is the engine's: the runtime keeps the options
\* it was started with, and "-p" "1" is the option that configures its worker
\* pool single-threaded.
NoRuntime == [created |-> FALSE, argv |-> << >>]
runtime_create(argc, argv) == [created |-> TRUE, argv |-> SubSeq(argv, 1, argc)]
SingleThreaded(rt) ==
    \E i \in 1 .. Len(rt.argv) - 1 : rt.argv[i] = "-p" /\ rt.argv[i + 1] = "1"

\* main: str_p wasm_argv[] = {"rayforce-wasm", "-r", "0", NULL};
\*       runtime = runtime_create(3, wasm_argv);
wasm_argv == <<"rayforce-wasm", "-r", "0">>
wasm_argc == 3

\* What an eval_cmd call leaves behind: the temporaries it made, how often
\* it entered ray_eval_str, and the temporaries it released, in order.
EvalTemps(made, evals, dropped) ==
    [made |-> made, evals |-> evals, dropped |-> dropped]
NoEval == EvalTemps(<< >>, 0, << >>)

\* The process as the host's first call finds it: main has created the
\* runtime, signalled the host and returned 0.
Init ==
    /\ heap = [h \in Handles |-> DeadObj]
    /\ mem = << >>
    /\ cmd_counter = 0
    /\ eval_name = ""
    /\ autos = 0
    /\ call = Call("start", 0, 0, 0, 0)
    /\ wr = {}
    /\ fault = FALSE
    /\ csv = NoCsv
    /\ symtab = << >>
    /\ runtime = runtime_create(wasm_argc, wasm_argv)
    /\ pc = "ready"
    /\ last_formatted = NULL
    /\ ev = NoEval

\* The process before main has run.
Start ==
    /\ heap = [h \in Handles |-> DeadObj]
    /\ mem = << >>
    /\ cmd_counter = 0
    /\ eval_name = ""
    /\ autos = 0
    /\ call = Call("start", 0, 0, 0, 0)
    /\ wr = {}
    /\ fault = FALSE
    /\ csv = NoCsv
    /\ symtab = << >>
    /\ runtime = NoRuntime
    /\ pc = "start"
    /\ last_formatted = NULL
    /\ ev = NoEval

(***************************************************************************)
(* Introspection and memory access (pure reads of the object header)       *)
(***************************************************************************)
get_obj_type(obj) == IF obj = NULL THEN TYPE_NULL ELSE heap[obj].type

get_obj_len(obj) ==
    IF obj = NULL THEN 0
    ELSE IF IS_ATOM(obj) THEN 1
    ELSE heap[obj].len

is_obj_atom(obj) ==
    IF obj = NULL THEN B8_FALSE
    ELSE IF IS_ATOM(obj) THEN B8_TRUE ELSE B8_FALSE

is_obj_vector(obj) ==
    IF obj = NULL THEN B8_FALSE
    ELSE IF IS_VECTOR(obj) THEN B8_TRUE ELSE B8_FALSE

\* Mutant of is_obj_null: the NULL guard copied from the neighbouring predicates.
is_obj_null_FalseOnNull(obj) == IF obj = NULL THEN B8_FALSE ELSE is_null(obj)

is_obj_null(obj) == IF obj = NULL THEN B8_TRUE ELSE is_null(obj)

is_obj_error(obj) ==
    IF obj = NULL THEN B8_FALSE
    ELSE IF IS_ERR(obj) THEN B8_TRUE ELSE B8_FALSE

get_obj_rc(obj) == IF obj = NULL THEN 0 ELSE heap[obj].rc

\* Mutant of get_data_ptr: the atom test is missing.
get_data_ptr_NoAtomTest(obj) == IF obj = NULL THEN NULL ELSE AS_C8(obj)

get_data_ptr(obj) ==
    IF obj = NULL \/ IS_ATOM(obj) THEN NULL ELSE AS_C8(obj)

\* Mutant of get_element_size: TYPE_TIMESTAMP falls through to the default.
get_element_size_NoTimestamp(type) ==
    LET t == IF type < 0 THEN -type ELSE type
    IN  CASE t \in {TYPE_B8, TYPE_U8, TYPE_C8} -> 1
          [] t = TYPE_I16 -> 2
          [] t \in {TYPE_I32, TYPE_DATE, TYPE_TIME} -> 4
          [] t \in {TYPE_I64, TYPE_F64, TYPE_SYMBOL} -> 8
          [] t = TYPE_GUID -> 16
          [] t = TYPE_LIST -> SizeofObjP
          [] OTHER -> 0

\* Mutant of get_element_size: the sign of the kind is not stripped.
get_element_size_NoAbs(type) ==
    CASE type \in {TYPE_B8, TYPE_U8, TYPE_C8} -> 1
      [] type = TYPE_I16 -> 2
      [] type \in {TYPE_I32, TYPE_DATE, TYPE_TIME} -> 4
      [] type \in {TYPE_I64, TYPE_F64, TYPE_SYMBOL, TYPE_TIMESTAMP} -> 8
      [] type = TYPE_GUID -> 16
      [] type = TYPE_LIST -> SizeofObjP
      [] OTHER -> 0

\* Mutant of get_element_size: TYPE_I64 sits in the 4-byte case group.
get_element_size_I64As4(type) ==
    LET t == IF type < 0 THEN -type ELSE type
    IN  CASE t \in {TYPE_B8, TYPE_U8, TYPE_C8} -> 1
          [] t = TYPE_I16 -> 2
          [] t \in {TYPE_I32, TYPE_I64, TYPE_DATE, TYPE_TIME} -> 4
          [] t \in {TYPE_F64, TYPE_SYMBOL, TYPE_TIMESTAMP} -> 8
          [] t = TYPE_GUID -> 16
          [] t = TYPE_LIST -> SizeofObjP
          [] OTHER -> 0

get_element_size(type) ==
    LET t == IF type < 0 THEN -type ELSE type
    IN  CASE t \in {TYPE_B8, TYPE_U8, TYPE_C8} -> 1
          [] t = TYPE_I16 -> 2
          [] t \in {TYPE_I32, TYPE_DATE, TYPE_TIME} -> 4
          [] t \in {TYPE_I64, TYPE_F64, TYPE_SYMBOL, TYPE_TIMESTAMP} -> 8
          [] t = TYPE_GUID -> 16
          [] t = TYPE_LIST -> SizeofObjP
          [] OTHER -> 0

\* Mutant of get_data_byte_size: the element count is returned as is.
get_data_byte_size_NoScale(obj) ==
    IF obj = NULL \/ IS_ATOM(obj) THEN 0 ELSE heap[obj].len

get_data_byte_size(obj) ==
    IF obj = NULL \/ IS_ATOM(obj) THEN 0
    ELSE heap[obj].len * get_element_size(heap[obj].type)

(***************************************************************************)
(* Actions.  A read-only export leaves every program variable alone.       *)
(***************************************************************************)
ReadOnly(op, h, ret) ==
    /\ ~fault
    /\ UNCHANGED <<csv, symtab, proc, ev>>
    /\ call' = Call(op, h, 0, 0, ret)
    /\ wr' = {}
    /\ UNCHANGED <<heap, mem, cmd_counter, eval_name, autos, fault>>

call_get_obj_type(obj) == ReadOnly("get_obj_type", obj, get_obj_type(obj))
call_get_obj_len(obj) == ReadOnly("get_obj_len", obj, get_obj_len(obj))
call_is_obj_atom(obj) == ReadOnly("is_obj_atom", obj, is_obj_atom(obj))
call_is_obj_vector(obj) == ReadOnly("is_obj_vector", obj, is_obj_vector(obj))
call_is_obj_null(obj) == ReadOnly("is_obj_null", obj, is_obj_null(obj))
call_is_obj_error(obj) == ReadOnly("is_obj_error", obj, is_obj_error(obj))
call_get_obj_rc(obj) == ReadOnly("get_obj_rc", obj, get_obj_rc(obj))
call_get_data_ptr(obj) == ReadOnly("get_data_ptr", obj, get_data_ptr(obj))
call_get_data_byte_size(obj) ==
    ReadOnly("get_data_byte_size", obj, get_data_byte_size(obj))
call_get_element_size(type) ==
    ReadOnly("get_element_size", type, get_element_size(type))

\* get_error_info: no object of kind ERROR exists in this part of the model,
\* so only the guard's NULL_OBJ branch is reachable.
get_error_info(err) ==
    /\ IF err = NULL THEN TRUE ELSE ~IS_ERR(err)
    /\ ReadOnly("get_error_info", err, NULL_OBJ)

(***************************************************************************)
(* Constructors and the reference-counting protocol                        *)
(***************************************************************************)
\* Memory after the allocator hands out `cells` holding `c`.
MemAlloc(cells, c) ==
    [a \in DOMAIN mem \cup cells |-> IF a \in cells THEN c[a] ELSE mem[a]]
\* Memory after `cells` are given back.
MemFree(cells) == [a \in DOMAIN mem \ cells |-> mem[a]]

Header(type, len, val) ==
    [live |-> TRUE, type |-> type, rc |-> 1, len |-> len, val |-> val]

\* init_vector(type, len) -> vector(type, len): a fresh object whose payload
\* holds whatever the allocator left there (Indet).
init_vector(type, len) ==
    /\ ~fault
    /\ UNCHANGED <<csv, symtab, proc, ev>>
    /\ \E h \in Free :
         /\ heap' = [heap EXCEPT ![h] = Header(type, len, 0)]
         /\ mem' = MemAlloc(PayloadCells(h, type, len),
                            [a \in PayloadCells(h, type, len) |-> Indet])
         /\ call' = Call("init_vector", NULL, type, len, h)
    /\ wr' = {}
    /\ UNCHANGED <<cmd_counter, eval_name, autos, fault>>

\* init_i64(val) -> i64(val): a fresh atom.
init_i64(val) ==
    /\ ~fault
    /\ UNCHANGED <<csv, symtab, proc, ev>>
    /\ \E h \in Free :
         /\ heap' = [heap EXCEPT ![h] = Header(-TYPE_I64, 0, val)]
         /\ call' = Call("init_i64", NULL, val, 0, h)
    /\ wr' = {}
    /\ UNCHANGED <<mem, cmd_counter, eval_name, autos, fault>>

\* Mutant of clone_obj: the handle is handed back without counting the owner.
clone_obj_NoCount(obj) ==
    /\ ~fault
    /\ UNCHANGED <<csv, symtab, proc, ev>>
    /\ obj \in Live
    /\ heap[obj].rc < MaxRc
    /\ call' = Call("clone_obj", obj, 0, 0, obj)
    /\ wr' = {}
    /\ UNCHANGED <<heap, mem, cmd_counter, eval_name, autos, fault>>

\* clone_obj(obj): one more owner of the same object.
clone_obj(obj) ==
    /\ ~fault
    /\ UNCHANGED <<csv, symtab, proc, ev>>
    /\ obj \in Live
    /\ heap[obj].rc < MaxRc
    /\ heap' = [heap EXCEPT ![obj].rc = @ + 1]
    /\ call' = Call("clone_obj", obj, 0, 0, obj)
    /\ wr' = {}
    /\ UNCHANGED <<mem, cmd_counter, eval_name, autos, fault>>

\* drop_obj(obj): one owner less; the last owner frees header and payload.
drop_obj(obj) ==
    /\ ~fault
    /\ UNCHANGED <<csv, symtab, proc, ev>>
    /\ obj \in Live
    /\ IF heap[obj].rc = 1
       THEN /\ heap' = [heap EXCEPT ![obj] = DeadObj]
            /\ mem' = MemFree(PayloadCells(obj, heap[obj].type, heap[obj].len))
       ELSE /\ heap' = [heap EXCEPT ![obj].rc = @ - 1]
            /\ mem' = mem
    /\ call' = Call("drop_obj", obj, 0, 0, 0)
    /\ wr' = {}
    /\ UNCHANGED <<cmd_counter, eval_name, autos, fault>>

(***************************************************************************)
(* Bulk fill from a host buffer                                            *)
(***************************************************************************)
\* The host buffers: data = NULL, or a pointer to BufLen elements of the
\* element type of the fill variant called.
BufLen == MaxLen + 1
HostBuf == [i \in 0 .. BufLen - 1 |-> (i + 1) % 2]
BufPtrs == {NULL, 1}
FillCounts == {-1, 0, 1, MaxLen, MaxLen + 1}

Store(m, addr, v) ==
    [a \in DOMAIN m \cup {addr} |-> IF a = addr THEN v ELSE m[a]]

\* Cells a memcpy of n bytes stores to, for elements of `size` bytes at dst.
CopiedCells(dst, n, size) == {dst + k * size : k \in 0 .. (n \div size) - 1}

\* memcpy(dst, data, n), n being the i64_t product before its conversion to
\* size_t.  size_t is 32 bits wide on wasm32, so a negative n becomes
\* 2^32 + n, a copy that runs past the end of linear memory from any payload
\* address and traps.  What it stored before trapping depends on the memcpy
\* the build links, so both outcomes are allowed: no store at all, or every
\* cell from dst on clobbered.
memcpy(dst, n, size) ==
    IF n >= 0
    THEN /\ mem' = [a \in DOMAIN mem \cup CopiedCells(dst, n, size) |->
                      IF a \in CopiedCells(dst, n, size)
                      THEN HostBuf[(a - dst) \div size]
                      ELSE mem[a]]
         /\ wr' = CopiedCells(dst, n, size)
         /\ fault' = fault
    ELSE /\ fault' = TRUE
         /\ \/ mem' = mem /\ wr' = {}
            \/ /\ mem' = [a \in DOMAIN mem |-> IF a >= dst THEN Indet ELSE mem[a]]
               /\ wr' = {a \in DOMAIN mem : a >= dst} \cup {dst}

\* Mutant of FillRejects: a vector with more than one owner is refused.
FillRejects_SharedRefused(type, obj, data) ==
    IF obj = NULL \/ data = NULL THEN TRUE
    ELSE heap[obj].type # type \/ heap[obj].rc > 1

\* Mutant of FillRejects: the buffer is not tested.
FillRejects_NoDataTest(type, obj, data) ==
    obj = NULL \/ heap[obj].type # type

\* The early return: obj == NULL || data == NULL || obj->type != TYPE_x
FillRejects(type, obj, data) ==
    obj = NULL \/ data = NULL \/ heap[obj].type # type

\* Mutant of CopyLen: the count is not clamped to the vector's length.
CopyLen_NoClamp(len, objlen) == len

\* copy_len = len < obj->len ? len : obj->len
CopyLen(len, objlen) == IF len < objlen THEN len ELSE objlen

\* fill_i64_vec / fill_i32_vec / fill_f64_vec share one body, up to the
\* type tag tested and the sizeof used.
FillVec(op, type, size, obj, data, len) ==
    /\ ~fault
    /\ UNCHANGED <<csv, symtab, proc, ev>>
    /\ call' = Call(op, obj, data, len, 0)
    /\ UNCHANGED <<heap, cmd_counter, eval_name, autos>>
    /\ IF FillRejects(type, obj, data)
       THEN /\ wr' = {}
            /\ UNCHANGED <<mem, fault>>
       ELSE memcpy(AS_C8(obj), CopyLen(len, heap[obj].len) * size, size)

fill_i64_vec(obj, data, len) ==
    FillVec("fill_i64_vec", TYPE_I64, SizeofI64, obj, data, len)
fill_i32_vec(obj, data, len) ==
    FillVec("fill_i32_vec", TYPE_I32, SizeofI32, obj, data, len)
fill_f64_vec(obj, data, len) ==
    FillVec("fill_f64_vec", TYPE_F64, SizeofF64, obj, data, len)

(***************************************************************************)
(* Zero-copy view (host side): a typed window of byte_size / element_size  *)
(* elements at data_pointer; a store through it goes straight to memory.   *)
(***************************************************************************)
view_write(obj, i, v) ==
    LET ptr   == get_data_ptr(obj)
        es    == get_element_size(get_obj_type(obj))
        bytes == get_data_byte_size(obj)
    IN  /\ ~fault
        /\ UNCHANGED <<csv, symtab, proc, ev>>
        /\ ptr # NULL
        /\ es > 0
        /\ (i + 1) * es <= bytes
        /\ mem' = Store(mem, ptr + i * es, v)
        /\ wr' = {ptr + i * es}
        /\ call' = Call("view_write", obj, i, v, 0)
        /\ UNCHANGED <<heap, cmd_counter, eval_name, autos, fault>>

(***************************************************************************)
(* Evaluation bridge                                                       *)
(***************************************************************************)
DecDigits == <<"0", "1", "2", "3", "4", "5", "6", "7", "8", "9">>
RECURSIVE Dec(_)
\* "%lld" of a non-negative value
Dec(n) == IF n < 10 THEN DecDigits[n + 1]
          ELSE Dec(n \div 10) \o DecDigits[(n % 10) + 1]

\* snprintf(buf, cap, ...): at most cap - 1 characters are kept.
snprintf(cap, text) ==
    IF Len(text) < cap THEN text ELSE SubSeq(text, 1, cap - 1)

\* A lit_p argument is << >> (NULL) or <<text>> (a pointer to that text).
NullStr == << >>
CmdArgs == {NullStr, <<"(+ 1 2)">>}
NameArgs == {NullStr, <<"">>, <<"a.ray">>}
NameKind(name) == IF name = NullStr THEN 0 ELSE IF name[1] = "" THEN 1 ELSE 2

\* Mutant of UseAutoName: only an absent name is auto-named.
UseAutoName_NullOnly(name) == name = NullStr

\* The test `name != NULL && name[0] != '\0'`, negated.
UseAutoName(name) == ~(IF name # NullStr THEN name[1] # "" ELSE FALSE)

\* Mutant of AutoName: the counter's value before the increment is printed.
AutoName_PostInc(counter) == snprintf(AutoNameCap, "cmd:" \o Dec(counter - 1))

\* snprintf(auto_name, sizeof(auto_name), "cmd:%lld", ++__CMD_COUNTER), given
\* the incremented counter.
AutoName(counter) == snprintf(AutoNameCap, "cmd:" \o Dec(counter))

\* History only: does the host's call ask for an auto-generated name?
AutoNamed(cmd, name) == cmd # NullStr /\ NameKind(name) \in {0, 1}

\* Mutant of EvalLedger: the wrapped source name is not released.
EvalLedger_NameLeak(cmd) ==
    IF cmd = NullStr THEN NoEval
    ELSE EvalTemps(<<"str_obj", "name_obj">>, 1, <<"str_obj">>)

\* The objects of one eval_cmd call: none when cmd is NULL; else str_obj and
\* name_obj are made, ray_eval_str is entered once, and drop_obj(str_obj),
\* drop_obj(name_obj) follow.
EvalLedger(cmd) ==
    IF cmd = NullStr THEN NoEval
    ELSE EvalTemps(<<"str_obj", "name_obj">>, 1, <<"str_obj", "name_obj">>)

\* eval_cmd(cmd, name).  ray_eval_str is the engine's: its result `res` is the
\* null object or a fresh object of kind `type` owned by the caller.
eval_cmd(cmd, name, res, type) ==
    /\ ~fault
    /\ UNCHANGED <<csv, symtab, proc>>
    /\ wr' = {}
    /\ UNCHANGED <<mem, fault>>
    /\ autos' = IF AutoNamed(cmd, name) THEN autos + 1 ELSE autos
    /\ ev' = EvalLedger(cmd)
    /\ IF cmd = NullStr
       THEN /\ call' = Call("eval_cmd", NULL, NameKind(name), 0, NULL_OBJ)
            /\ UNCHANGED <<heap, cmd_counter, eval_name>>
       ELSE /\ IF ~UseAutoName(name)
               THEN /\ eval_name' = name[1]
                    /\ UNCHANGED cmd_counter
               ELSE /\ cmd_counter < MaxCmd
                    /\ cmd_counter' = cmd_counter + 1
                    /\ eval_name' = AutoName(cmd_counter + 1)
            /\ res \in {NULL_OBJ} \cup Free
            /\ heap' = IF res = NULL_OBJ THEN heap
                       ELSE [heap EXCEPT ![res] = Header(type, 0, 0)]
            /\ call' = Call("eval_cmd", 1, NameKind(name), 0, res)

get_cmd_counter == ReadOnly("get_cmd_counter", NULL, cmd_counter)

reset_cmd_counter ==
    /\ ~fault
    /\ UNCHANGED <<csv, symtab, proc, ev>>
    /\ cmd_counter' = 0
    /\ autos' = 0
    /\ call' = Call("reset_cmd_counter", NULL, 0, 0, 0)
    /\ wr' = {}
    /\ UNCHANGED <<heap, mem, eval_name, fault>>

(***************************************************************************)
(* Error objects                                                           *)
(***************************************************************************)
\* err_code_t: the user code and two of the engine's built-in codes.  The
\* numeric values are the engine's; the binding only compares with EC_USER.
EC_USER == 1
ErrCodes == {EC_USER, EC_USER + 1, EC_USER + 2}
err_code(err) == heap[err].val

\* err_name(code): the engine's static table of canonical names.
err_name(code) == "E" \o Dec(code)

\* The engine hands out an error: kind ERROR, the code in the payload and,
\* for a user error, the message stored inline after the header (len is the
\* message's length; a user error raised without memory for it has none).
raise_error(code, msg) ==
    /\ ~fault
    /\ UNCHANGED <<csv, symtab, proc, ev>>
    /\ code # EC_USER => msg = ""
    /\ \E h \in Free :
         /\ heap' = [heap EXCEPT ![h] = Header(TYPE_ERR, Len(msg), code)]
         /\ mem' = IF msg = "" THEN mem
                   ELSE MemAlloc({AS_C8(h)}, [a \in {AS_C8(h)} |-> msg])
         /\ call' = Call("raise_error", NULL, code, 0, h)
    /\ wr' = {}
    /\ UNCHANGED <<cmd_counter, eval_name, autos, fault>>

\* Mutant of get_error_message: the EC_USER branch is missing, every error
\* gets the name of its code.
get_error_message_NoUserBranch(err) ==
    IF (IF err = NULL THEN TRUE ELSE ~IS_ERR(err))
    THEN <<"Unknown error">>
    ELSE <<err_name(err_code(err))>>

\* get_error_message(err): a lit_p, << >> for NULL or <<text>>.  `err + 1` is
\* the address right after the header.
get_error_message(err) ==
    IF (IF err = NULL THEN TRUE ELSE ~IS_ERR(err))
    THEN <<"Unknown error">>
    ELSE IF err_code(err) = EC_USER
         THEN IF heap[err].len > 0
              THEN <<mem[err + ObjHeaderBytes]>>
              ELSE <<"Out of memory">>
         ELSE <<err_name(err_code(err))>>

call_get_error_message(err) ==
    ReadOnly("get_error_message", err, get_error_message(err))

(***************************************************************************)
(* Symbol interning                                                        *)
(***************************************************************************)
\* The engine's symbol table, id -> text; an id is the entry's position.
SymId(tab, text) ==
    IF \E i \in 1 .. Len(tab) : tab[i] = text
    THEN CHOOSE i \in 1 .. Len(tab) : tab[i] = text
    ELSE Len(tab) + 1
SymTab(tab, text) ==
    IF \E i \in 1 .. Len(tab) : tab[i] = text THEN tab ELSE Append(tab, text)

\* symbol(str, len), the engine's: a fresh SYMBOL atom holding the id of the
\* first len bytes of str.
symbol(hp, sym, str, len) ==
    [hp EXCEPT ![sym] =
        Header(-TYPE_SYMBOL, 0, SymId(symtab, SubSeq(str, 1, len)))]

\* The heap after drop_obj(obj).
Released(hp, obj) ==
    IF hp[obj].rc = 1 THEN [hp EXCEPT ![obj] = DeadObj]
    ELSE [hp EXCEPT ![obj].rc = @ - 1]

\* Mutant of InternId: the id is read after the symbol object was released.
InternId_AfterDrop(hp, sym) == Released(hp, sym)[sym].val

\* i64_t id = sym->i64;
InternId(hp, sym) == hp[sym].val

\* Mutant of InternDrop: the symbol object is never released.
InternDrop_Leak(hp, sym) == hp

\* drop_obj(sym);
InternDrop(hp, sym) == Released(hp, sym)

\* intern_symbol(str, len).  The symbol object needs a free slot.
intern_symbol(str, len) ==
    /\ ~fault
    /\ \E sym \in Free :
         LET hp == symbol(heap, sym, str, len)
         IN  /\ heap' = InternDrop(hp, sym)
             /\ call' = Call("intern_symbol", NULL, len, SubSeq(str, 1, len),
                             InternId(hp, sym))
    /\ symtab' = SymTab(symtab, SubSeq(str, 1, len))
    /\ wr' = {}
    /\ UNCHANGED <<mem, cmd_counter, eval_name, autos, fault, csv, proc, ev>>

\* symbol_to_str(id) -> str_from_symbol(id), for an id the host was given.
symbol_to_str(id) ==
    /\ id \in 1 .. Len(symtab)
    /\ ReadOnly("symbol_to_str", id, <<symtab[id]>>)

(***************************************************************************)
(* Vector operations through a handle reference (obj_p *obj)               *)
(***************************************************************************)
\* An obj_p * argument is NULL or the address of a host cell that holds a
\* handle.  A cell is identified by the handle it holds: the cell holding h
\* sits at HostCells + h, above the object slots.
HostCells == (MaxObjs + 1) * SlotBytes
RefTo(h) == HostCells + h
Deref(ref) == ref - HostCells
Refs == {NULL} \cup {RefTo(h) : h \in HostHandles}

\* Mutant of VecRejects: only the reference is tested, not the handle in it.
VecRejects_NoDerefTest(ref) == ref = NULL

\* The early return: obj == NULL || *obj == NULL
VecRejects(ref) == IF ref = NULL THEN TRUE ELSE Deref(ref) = NULL

\* The early return taken: the null object, nothing touched.
VecNoOp(op, ref, idx, val) ==
    /\ call' = Call(op, ref, idx, val, NULL_OBJ)
    /\ wr' = {}
    /\ UNCHANGED <<heap, mem, fault>>

\* The engine entered with a null handle: it reads the header of no object,
\* which is undefined behaviour.
EngineOnNull(op, ref, idx, val) ==
    /\ fault' = TRUE
    /\ call' = Call(op, ref, idx, val, NULL_OBJ)
    /\ wr' = {}
    /\ UNCHANGED <<heap, mem>>

\* The host passes the engine a value atom of the vector's kind.
ValueFor(h, val) ==
    /\ IS_VECTOR(h)
    /\ val \in Live
    /\ heap[val].type = -heap[h].type

\* Where the engine may put a vector it reallocates: where it is, or in any
\* free slot.
Targets(h) == {h} \cup Free

\* The vector h becomes a vector of newlen elements holding content[i], at
\* h2; `st` are the indexes stored to when it stays in place.  A move frees
\* the old header and payload.
Resized(op, ref, idx, val, h, h2, newlen, content, st) ==
    LET type == heap[h].type
        old  == PayloadCells(h, type, heap[h].len)
        new  == PayloadCells(h2, type, newlen)
    IN  /\ heap' = [a \in Handles |->
                      IF a = h2 THEN [heap[h] EXCEPT !.len = newlen]
                      ELSE IF a = h THEN DeadObj
                      ELSE heap[a]]
        /\ mem' = [a \in (DOMAIN mem \ old) \cup new |->
                      IF a \in new
                      THEN content[(a - AS_C8(h2)) \div sizeof_elem(type)]
                      ELSE mem[a]]
        /\ wr' = IF h2 = h
                 THEN {AS_C8(h) + i * sizeof_elem(type) : i \in st}
                 ELSE new
        /\ call' = Call(op, ref, idx, val, h2)
        /\ fault' = fault

\* set_idx(obj, idx, val), the engine's: an in-place store; nothing grows.
set_idx(op, ref, idx, val) ==
    LET h == Deref(ref)
    IN  /\ ValueFor(h, val)
        /\ idx \in 0 .. heap[h].len - 1
        /\ mem' = Store(mem, ElemAddr(h, idx), heap[val].val)
        /\ wr' = {ElemAddr(h, idx)}
        /\ call' = Call(op, ref, idx, val, h)
        /\ UNCHANGED <<heap, fault>>

\* push_obj(obj, val), the engine's: one element more, the buffer may move.
push_obj(op, ref, idx, val) ==
    LET h == Deref(ref)
        n == heap[h].len
    IN  /\ ValueFor(h, val)
        /\ n < MaxLen
        /\ \E h2 \in Targets(h) :
             Resized(op, ref, idx, val, h, h2, n + 1,
                     [i \in 0 .. n |->
                        IF i < n THEN ElemAt(h, i) ELSE heap[val].val],
                     {n})

\* ins_obj(obj, idx, val), the engine's: the elements from idx on move up.
ins_obj(op, ref, idx, val) ==
    LET h == Deref(ref)
        n == heap[h].len
    IN  /\ ValueFor(h, val)
        /\ n < MaxLen
        /\ idx \in 0 .. n
        /\ \E h2 \in Targets(h) :
             Resized(op, ref, idx, val, h, h2, n + 1,
                     [i \in 0 .. n |->
                        IF i < idx THEN ElemAt(h, i)
                        ELSE IF i = idx THEN heap[val].val
                        ELSE ElemAt(h, i - 1)],
                     idx .. n)

\* resize_obj(obj, len), the engine's: elements beyond the old length hold
\* whatever the allocator left there.
resize_obj(op, ref, len, val) ==
    LET h == Deref(ref)
        n == heap[h].len
    IN  /\ IS_VECTOR(h)
        /\ len \in 0 .. MaxLen
        /\ \E h2 \in Targets(h) :
             Resized(op, ref, len, val, h, h2, len,
                     [i \in 0 .. len - 1 |->
                        IF i < n THEN ElemAt(h, i) ELSE Indet],
                     n .. len - 1)

vec_set_idx(ref, idx, val) ==
    /\ ~fault
    /\ UNCHANGED <<cmd_counter, eval_name, autos, csv, symtab, proc, ev>>
    /\ IF VecRejects(ref) THEN VecNoOp("vec_set_idx", ref, idx, val)
       ELSE IF Deref(ref) = NULL
            THEN EngineOnNull("vec_set_idx", ref, idx, val)
            ELSE set_idx("vec_set_idx", ref, idx, val)

vec_push(ref, val) ==
    /\ ~fault
    /\ UNCHANGED <<cmd_counter, eval_name, autos, csv, symtab, proc, ev>>
    /\ IF VecRejects(ref) THEN VecNoOp("vec_push", ref, 0, val)
       ELSE IF Deref(ref) = NULL
            THEN EngineOnNull("vec_push", ref, 0, val)
            ELSE push_obj("vec_push", ref, 0, val)

vec_insert(ref, idx, val) ==
    /\ ~fault
    /\ UNCHANGED <<cmd_counter, eval_name, autos, csv, symtab, proc, ev>>
    /\ IF VecRejects(ref) THEN VecNoOp("vec_insert", ref, idx, val)
       ELSE IF Deref(ref) = NULL
            THEN EngineOnNull("vec_insert", ref, idx, val)
            ELSE ins_obj("vec_insert", ref, idx, val)

vec_resize(ref, len) ==
    /\ ~fault
    /\ UNCHANGED <<cmd_counter, eval_name, autos, csv, symtab, proc, ev>>
    /\ IF VecRejects(ref) THEN VecNoOp("vec_resize", ref, len, NULL)
       ELSE IF Deref(ref) = NULL
            THEN EngineOnNull("vec_resize", ref, len, NULL)
            ELSE resize_obj("vec_resize", ref, len, NULL)

\* at_idx(obj, idx), the engine's: a fresh atom holding element idx, or the
\* null object when idx is out of range.
at_idx(obj, idx) ==
    /\ IS_VECTOR(obj)
    /\ IF idx \in 0 .. heap[obj].len - 1
       THEN \E a \in Free :
              /\ heap' = [heap EXCEPT
                            ![a] = Header(-heap[obj].type, 0, ElemAt(obj, idx))]
              /\ call' = Call("vec_at_idx", obj, idx, 0, a)
       ELSE /\ heap' = heap
            /\ call' = Call("vec_at_idx", obj, idx, 0, NULL_OBJ)
    /\ UNCHANGED mem

\* Mutant of vec_at_idx: the vector read from is released, as if the call
\* took ownership of its argument.
vec_at_idx_Consumes(obj, idx) ==
    /\ ~fault
    /\ obj \in Live
    /\ IS_VECTOR(obj)
    /\ heap[obj].rc = 1
    /\ heap' = [heap EXCEPT ![obj] = DeadObj]
    /\ mem' = MemFree(PayloadCells(obj, heap[obj].type, heap[obj].len))
    /\ call' = Call("vec_at_idx", obj, idx, 0, NULL_OBJ)
    /\ wr' = {}
    /\ UNCHANGED <<cmd_counter, eval_name, autos, fault, csv, symtab,
                 proc, ev>>

vec_at_idx(obj, idx) ==
    /\ ~fault
    /\ wr' = {}
    /\ UNCHANGED <<cmd_counter, eval_name, autos, fault, csv, symtab,
                 proc, ev>>
    /\ IF obj = NULL
       THEN /\ call' = Call("vec_at_idx", obj, idx, 0, NULL_OBJ)
            /\ UNCHANGED <<heap, mem>>
       ELSE at_idx(obj, idx)

(***************************************************************************)
(* CSV ingestion: read_csv(content, len)                                   *)
(***************************************************************************)
\* Offsets into the buffer count from 0, as the pointers of the code do;
\* NoPos stands for a NULL pointer into the buffer.
NoPos == -1
CharAt(buf, i) == SubSeq(buf, i + 1, i + 1)
Field(buf, pos, n) == SubSeq(buf, pos + 1, pos + n)

\* memchr(buf + pos, ch, n): the offset of the first ch in n bytes from pos.
memchr(buf, pos, ch, n) ==
    LET hits == {k \in pos .. pos + n - 1 : CharAt(buf, k) = ch}
    IN  IF hits = {} THEN NoPos
        ELSE CHOOSE k \in hits : \A j \in hits : k <= j

\* while ((pos = memchr(pos, ch, end - pos))) { ++n; ++pos; }
RECURSIVE CountFrom(_, _, _, _)
CountFrom(buf, pos, end, ch) ==
    LET p == memchr(buf, pos, ch, end - pos)
    IN  IF p = NoPos THEN 0 ELSE 1 + CountFrom(buf, p + 1, end, ch)

\* The offsets the counting loop reads: each memchr reads from pos up to the
\* byte it finds, or all the end - pos bytes it was given.
RECURSIVE ReadsFrom(_, _, _, _)
ReadsFrom(buf, pos, end, ch) ==
    LET p == memchr(buf, pos, ch, end - pos)
    IN  IF p = NoPos THEN pos .. end - 1
        ELSE (pos .. p) \cup ReadsFrom(buf, p + 1, end, ch)

\* The offsets read to count the lines: the loop, and buf[len - 1].
CsvLineReads(buf, len) ==
    ReadsFrom(buf, 0, len, "\n") \cup (IF len > 0 THEN {len - 1} ELSE {})

\* Mutant of CsvLines: a trailing partial line is counted whatever the last
\* byte is.
CsvLines_AlwaysPartial(buf, len) ==
    CountFrom(buf, 0, len, "\n") + (IF len > 0 THEN 1 ELSE 0)

\* Mutant of CsvLines: a last line without newline is not counted.
CsvLines_NoPartialLine(buf, len) == CountFrom(buf, 0, len, "\n")

\* The line count: the newlines, and the trailing partial line.
CsvLines(buf, len) ==
    CountFrom(buf, 0, len, "\n")
      + (IF len > 0 /\ CharAt(buf, len - 1) # "\n" THEN 1 ELSE 0)

\* Mutant of HeaderLen: the header runs to the end of the buffer.
HeaderLen_WholeBuffer(buf, len) == len

\* Mutant of FirstLine: the data starts at the newline, not after it.
FirstLine_AtNewline(buf, len) ==
    LET p == memchr(buf, 0, "\n", len) IN IF p = NoPos THEN NoPos ELSE p

\* header_len, and `line`: the start of the data (NoPos without newline).
HeaderLen(buf, len) ==
    LET p == memchr(buf, 0, "\n", len) IN IF p = NoPos THEN len ELSE p
FirstLine(buf, len) ==
    LET p == memchr(buf, 0, "\n", len) IN IF p = NoPos THEN NoPos ELSE p + 1

\* Mutant of CsvCols: the count starts at 0.
CsvCols_SepCount(buf, len) == CountFrom(buf, 0, HeaderLen(buf, len), ",")

\* The column count l: one more than the separators of the header.
CsvCols(buf, len) == 1 + CountFrom(buf, 0, HeaderLen(buf, len), ",")

\* The loop over the l header fields, from column i on: the bytes handed to
\* io_symbol_from_str_trimmed for each column.
RECURSIVE HeaderFields(_, _, _, _, _)
HeaderFields(buf, pos, remaining, i, l) ==
    IF i >= l THEN << >>
    ELSE LET next_sep == memchr(buf, pos, ",", remaining)
         IN  IF next_sep = NoPos
             THEN <<Field(buf, pos,
                          IF remaining > 0
                               /\ CharAt(buf, pos + remaining - 1) = "\r"
                          THEN remaining - 1 ELSE remaining)>>
                    \o HeaderFields(buf, pos + remaining, 0, i + 1, l)
             ELSE <<Field(buf, pos, next_sep - pos)>>
                    \o HeaderFields(buf, next_sep + 1,
                                    remaining - (next_sep - pos + 1), i + 1, l)

\* Mutant of DataLines: the header line is counted as a data line.
DataLines_WithHeader(lines) == lines

\* lines--; if (lines < 0) lines = 0;
DataLines(lines) == IF lines - 1 < 0 THEN 0 ELSE lines - 1

\* The engine's trimming of a field: blanks at both ends go.
RECURSIVE Trim(_)
Trim(text) ==
    IF text = "" THEN text
    ELSE IF SubSeq(text, 1, 1) = " " THEN Trim(SubSeq(text, 2, Len(text)))
    ELSE IF SubSeq(text, Len(text), Len(text)) = " "
         THEN Trim(SubSeq(text, 1, Len(text) - 1))
    ELSE text

\* The symbol table after interning the texts in order.
RECURSIVE InternAll(_, _)
InternAll(tab, texts) ==
    IF texts = << >> THEN tab
    ELSE InternAll(SymTab(tab, Trim(Head(texts))), Tail(texts))

\* The engine's row parser works on the data lines, each split at the
\* separator; a line end may be "\r\n".
RECURSIVE Split(_, _)
Split(text, ch) ==
    LET p == memchr(text, 0, ch, Len(text))
    IN  IF p = NoPos THEN <<text>>
        ELSE <<SubSeq(text, 1, p)>>
               \o Split(SubSeq(text, p + 2, Len(text)), ch)
NoCr(text) ==
    IF text # "" /\ SubSeq(text, Len(text), Len(text)) = "\r"
    THEN SubSeq(text, 1, Len(text) - 1) ELSE text
DataRows(buf, line, len, lines) ==
    LET all == Split(SubSeq(buf, line + 1, len), "\n")
    IN  [r \in 1 .. lines |-> Split(NoCr(all[r]), ",")]

\* Mutant of CsvReject: a length <= 0 is let through.
CsvReject_NoLenTest(content, len) ==
    IF content = NULL THEN "CSV content is NULL" ELSE ""

\* The two early returns: the message of the user error, "" when the input
\* is let through.
CsvReject(content, len) ==
    IF content = NULL THEN "CSV content is NULL"
    ELSE IF len <= 0 THEN "CSV length is zero or negative"
    ELSE ""

\* The objects and buffers of one call: names, type_arr, cols and the l
\* columns col0, col1, ...
ColName(i) == "col" \o Dec(i)
CsvColumns(l) == {ColName(i) : i \in 0 .. l - 1}
CsvObjs(l) == {"names", "type_arr", "cols"} \cup CsvColumns(l)
Ledger(l, allocated, released, again) ==
    [o \in CsvObjs(l) |->
       [alloc |-> IF o \in allocated THEN 1 ELSE 0,
        freed |-> (IF o \in released THEN 1 ELSE 0)
                    + (IF o \in again THEN 1 ELSE 0)]]

\* What releasing a list slot nobody stored to can do: the bytes there may
\* be zero (nothing happens), be the address of an object released before
\* (names, released again), or be no object at all (the release traps).
WildOutcomes == {"null", "alias", "trap"}

\* Where an allocation of the call can fail.
FailPoints(l, parsing) ==
    {"none", "names", "type_arr", "cols", "table"} \cup CsvColumns(l)
      \cup (IF parsing THEN {"parser"} ELSE {})

\* A failure path: everything allocated so far is released, `again` twice.
CsvFailed(msg, l, allocated, again, parsed, wild) ==
    CsvOutcome(<<"user_error", msg>>, << >>, << >>, << >>, << >>, 0, parsed,
               Ledger(l, allocated, allocated, again), wild)

\* read_csv after the early returns, on len readable bytes: the outcome and
\* the symbol table it leaves.  `fail` is the allocation that fails, `ub`
\* what the release of never-assigned list slots does.
CsvBuild(buf, len, fail, ub) ==
    LET lines0 == CsvLines(buf, len)
        l      == CsvCols(buf, len)
        line   == FirstLine(buf, len)
        fields == HeaderFields(buf, 0, HeaderLen(buf, len), 0, l)
        tab    == InternAll(symtab, fields)
        lines  == DataLines(lines0)
        parsing == lines > 0 /\ line # NoPos
        rows   == DataRows(buf, line, len, lines)
        base   == {"names", "type_arr", "cols"}
        all    == CsvObjs(l)
    IN  IF lines0 = 0
        THEN [out |-> CsvFailed("CSV has no lines", 0, {}, {}, FALSE, 0),
              tab |-> symtab]
        ELSE IF fail = "names"
        THEN [out |-> CsvFailed("Failed to allocate column names",
                                l, {}, {}, FALSE, 0),
              tab |-> symtab]
        ELSE IF fail = "type_arr"
        THEN [out |-> CsvFailed("Failed to allocate type array",
                                l, {"names"}, {}, FALSE, 0),
              tab |-> tab]
        ELSE IF fail = "cols"
        THEN [out |-> CsvFailed("Failed to allocate columns list",
                                l, {"names", "type_arr"}, {}, FALSE, 0),
              tab |-> tab]
        ELSE IF fail \in CsvColumns(l)
        THEN LET i == CHOOSE j \in 0 .. l - 1 : ColName(j) = fail
                 wild == l - 1 - i
             IN  [out |-> [CsvFailed(
                     "Failed to allocate column data - file too large for memory",
                     l, base \cup {ColName(j) : j \in 0 .. i - 1},
                     IF wild > 0 /\ ub = "alias" THEN {"names"} ELSE {},
                     FALSE, wild)
                    EXCEPT !.kind = IF wild > 0 /\ ub = "trap"
                                    THEN <<"trap", "">> ELSE @],
                  tab |-> tab]
        ELSE IF parsing /\ (fail = "parser" \/ \E r \in 1 .. lines :
                                                  Len(rows[r]) # l)
        THEN [out |-> [CsvFailed("", l, all, {}, TRUE, 0)
                         EXCEPT !.kind = <<"engine_error", "">>],
              tab |-> tab]
        ELSE IF fail = "table"
        THEN [out |-> CsvFailed(
                        "Out of memory: failed to allocate table structure",
                        l, all, {}, parsing, 0),
              tab |-> tab]
        ELSE [out |-> CsvOutcome(<<"table", "">>,
                        [c \in 1 .. l |-> SymId(tab, Trim(fields[c]))],
                        [c \in 1 .. l |-> TYPE_C8],
                        [c \in 1 .. l |-> TYPE_LIST],
                        [c \in 1 .. l |->
                           [r \in 1 .. lines |->
                              IF parsing THEN rows[r][c] ELSE Indet]],
                        lines, parsing,
                        Ledger(l, all, {"type_arr"}, {}), 0),
              tab |-> tab]

\* The object read_csv returns, put into a free slot.
CsvReturn(content, len, info, out, tab) ==
    /\ csv' = out
    /\ symtab' = tab
    /\ IF out.kind[1] = "trap"
       THEN /\ fault' = TRUE
            /\ call' = Call("read_csv", content, len, info, NULL_OBJ)
            /\ UNCHANGED <<heap, mem>>
       ELSE /\ fault' = fault
            /\ \E h \in Free :
                 /\ call' = Call("read_csv", content, len, info, h)
                 /\ heap' = [heap EXCEPT ![h] =
                      CASE out.kind[1] = "table" -> Header(TYPE_TABLE, 0, 0)
                        [] out.kind[1] = "user_error" ->
                             Header(TYPE_ERR, Len(out.kind[2]), EC_USER)
                        [] out.kind[1] = "engine_error" ->
                             Header(TYPE_ERR, 0, EC_USER + 1)]
                 /\ mem' = IF out.kind[1] = "user_error"
                           THEN MemAlloc({AS_C8(h)},
                                         [a \in {AS_C8(h)} |-> out.kind[2]])
                           ELSE mem

\* read_csv(content, len).  content is NULL or points to buf.bytes, which is
\* memory the module can read when buf.mapped.
read_csv(content, buf, len, fail, ub) ==
    /\ ~fault
    /\ wr' = {}
    /\ UNCHANGED <<cmd_counter, eval_name, autos, proc, ev>>
    /\ LET info == [bytes |-> buf.bytes, mapped |-> buf.mapped, fail |-> fail]
           rej  == CsvReject(content, len)
       IN  IF rej # ""
           THEN /\ fail = "none"
                /\ ub = "null"
                /\ CsvReturn(content, len, info,
                             CsvFailed(rej, 0, {}, {}, FALSE, 0), symtab)
           ELSE IF len # 0 /\ (content = NULL \/ ~buf.mapped
                                 \/ len \notin 1 .. Len(buf.bytes))
           THEN \* the scan reads bytes that are not there
                /\ fail = "none"
                /\ ub = "null"
                /\ fault' = TRUE
                /\ call' = Call("read_csv", content, len, info, NULL_OBJ)
                /\ UNCHANGED <<heap, mem, csv, symtab>>
           ELSE /\ fail \in FailPoints(CsvCols(buf.bytes, len),
                                       /\ DataLines(CsvLines(buf.bytes, len)) > 0
                                       /\ FirstLine(buf.bytes, len) # NoPos)
                /\ LET b == CsvBuild(buf.bytes, len, fail, ub)
                   IN  CsvReturn(content, len, info, b.out, b.tab)

\* table_count(t): the length of the first column of the table, 0 for what
\* is no table or has no column.  The one table of the model is the one the
\* last read_csv built, its column list kept in csv.cols.
table_count(t) ==
    IF t = NULL THEN 0
    ELSE IF heap[t].type # TYPE_TABLE THEN 0
    ELSE IF Len(csv.cols) = 0 THEN 0
    ELSE Len(csv.cols[1])

(***************************************************************************)
(* Formatting for the host: strof_obj(obj)                                 *)
(***************************************************************************)
\* obj_fmt(obj, B8_TRUE), the engine's: the text of an object.
FmtText(hp, obj) ==
    IF obj = NULL THEN "null"
    ELSE IF hp[obj].type < 0 THEN Dec(hp[obj].val)
    ELSE "[..]"

\* Mutant of FmtRelease: the previous result is kept.
FmtRelease_Leak(hp, last) == hp

\* if (last_formatted != NULL) drop_obj(last_formatted);
FmtRelease(hp, last) == IF last # NULL THEN Released(hp, last) ELSE hp

\* strof_obj(obj): the previous result is released, obj_fmt makes the new
\* one, a fresh CHAR vector holding the text, and the address of its payload
\* is returned.  call.x keeps the handle last_formatted held on entry.
strof_obj(obj) ==
    /\ ~fault
    /\ LET hp    == FmtRelease(heap, last_formatted)
           freed == IF last_formatted = NULL THEN {}
                    ELSE IF hp[last_formatted].live THEN {}
                    ELSE PayloadCells(last_formatted, TYPE_C8,
                                      heap[last_formatted].len)
           text  == FmtText(hp, obj)
       IN  \E f \in {h \in Handles : ~hp[h].live} :
             /\ heap' = [hp EXCEPT ![f] = Header(TYPE_C8, Len(text), 0)]
             /\ mem' = [a \in (DOMAIN mem \ freed) \cup {AS_C8(f)} |->
                          IF a = AS_C8(f) THEN text ELSE mem[a]]
             /\ last_formatted' = f
             /\ call' = Call("strof_obj", obj, last_formatted, 0, AS_C8(f))
    /\ wr' = {}
    /\ UNCHANGED <<cmd_counter, eval_name, autos, fault, csv, symtab, runtime,
                   pc, ev>>

(***************************************************************************)
(* Process start: main                                                     *)
(***************************************************************************)
\* runtime = runtime_create(3, wasm_argv); if (runtime == NULL) return -1;
\* The engine may fail to build the runtime (`ok` false).
main_runtime_create(ok) ==
    /\ ~fault
    /\ pc = "start"
    /\ runtime' = IF ok THEN runtime_create(wasm_argc, wasm_argv) ELSE NoRuntime
    /\ pc' = IF ok THEN "selftest" ELSE "exit"
    /\ call' = Call("runtime_create", NULL, wasm_argc, 0, IF ok THEN 0 ELSE -1)
    /\ wr' = {}
    /\ UNCHANGED <<heap, mem, cmd_counter, eval_name, autos, fault, csv, symtab,
                   last_formatted, ev>>

\* test_result = eval_str("(+ 1 2)"): the null object, or an object that is
\* formatted, printed and released together with its formatted text.
main_selftest(res) ==
    /\ ~fault
    /\ pc = "selftest"
    /\ res \in {NULL_OBJ} \cup Free
    /\ pc' = "banner"
    /\ call' = Call("eval_str", 1, 0, 0, res)
    /\ wr' = {}
    /\ UNCHANGED <<heap, mem, cmd_counter, eval_name, autos, fault, csv, symtab,
                   runtime, last_formatted, ev>>

\* The banner is formatted into fmt, js_rayforce_ready(AS_C8(fmt)) signals
\* the host, fmt is released and main returns 0.
main_ready ==
    /\ ~fault
    /\ pc = "banner"
    /\ pc' = "ready"
    /\ call' = Call("js_rayforce_ready", NULL, 0, 0, 0)
    /\ wr' = {}
    /\ UNCHANGED <<heap, mem, cmd_counter, eval_name, autos, fault, csv, symtab,
                   runtime, last_formatted, ev>>

(***************************************************************************)
(* Specifications: what the host calls, and with which arguments           *)
(***************************************************************************)
VecTypes == {TYPE_I32, TYPE_I64, TYPE_F64}
NoVector == \A h \in Live : IS_ATOM(h)

\* Introspection of whatever the host has built.
NextIntro ==
    \/ \E t \in VecTypes, n \in 0 .. MaxLen : init_vector(t, n)
    \/ \E v \in Vals : init_i64(v)
    \/ \E h \in Live : drop_obj(h)
    \/ \E h \in HostHandles : call_get_obj_type(h)
    \/ \E h \in HostHandles : call_get_obj_len(h)
    \/ \E h \in HostHandles : call_is_obj_atom(h)
    \/ \E h \in HostHandles : call_is_obj_vector(h)
    \/ \E h \in HostHandles : call_is_obj_null(h)
    \/ \E h \in HostHandles : call_is_obj_error(h)
    \/ \E h \in HostHandles : get_error_info(h)
    \/ \E h \in HostHandles : call_get_obj_rc(h)
    \/ \E h \in HostHandles : call_get_data_ptr(h)
    \/ \E h \in HostHandles : call_get_data_byte_size(h)

SpecIntro == Init /\ [][NextIntro]_vars

\* element_size over every i8_t kind code.
NextSize == \E k \in I8 : call_get_element_size(k)

SpecSize == Init /\ [][NextSize]_vars

\* In-place mutation of vectors: bulk fill and stores through a view.
NextFill ==
    \/ \E t \in VecTypes, n \in 0 .. MaxLen : NoVector /\ init_vector(t, n)
    \/ init_i64(0)
    \/ \E h \in Live : drop_obj(h)
    \/ \E h \in HostHandles, n \in FillCounts : fill_i64_vec(h, 1, n)
    \/ \E h \in HostHandles : fill_i64_vec(h, NULL, 1)
    \/ \E h \in HostHandles, n \in FillCounts : fill_i32_vec(h, 1, n)
    \/ \E h \in HostHandles : fill_i32_vec(h, NULL, 1)
    \/ \E h \in HostHandles, n \in FillCounts : fill_f64_vec(h, 1, n)
    \/ \E h \in HostHandles : fill_f64_vec(h, NULL, 1)
    \/ \E h \in Live, i \in 0 .. MaxLen, v \in Vals : view_write(h, i, v)

SpecFill == Init /\ [][NextFill]_vars

\* Shared ownership.
NextRc ==
    \/ \E n \in 0 .. MaxLen : init_vector(TYPE_I64, n)
    \/ init_i64(0)
    \/ \E h \in Live : clone_obj(h)
    \/ \E h \in Live : drop_obj(h)
    \/ \E h \in HostHandles : call_get_obj_rc(h)

SpecRc == Init /\ [][NextRc]_vars

\* Every export, around the evaluation bridge.  The host holds one object at
\* a time here, its own or an evaluation result.
EvalResults == {NULL_OBJ} \cup (IF Live = {} THEN Free ELSE {})
Next ==
    \/ \E c \in CmdArgs, n \in NameArgs, r \in EvalResults :
         eval_cmd(c, n, r, -TYPE_I64)
    \/ get_cmd_counter
    \/ reset_cmd_counter
    \/ Live = {} /\ init_vector(TYPE_I64, 1)
    \/ Live = {} /\ init_i64(0)
    \/ \E h \in Live : clone_obj(h)
    \/ \E h \in Live : drop_obj(h)
    \/ \E h \in HostHandles : call_get_obj_type(h)
    \/ \E h \in HostHandles : call_get_obj_len(h)
    \/ \E h \in HostHandles : call_is_obj_atom(h)
    \/ \E h \in HostHandles : call_is_obj_vector(h)
    \/ \E h \in HostHandles : call_is_obj_null(h)
    \/ \E h \in HostHandles : call_is_obj_error(h)
    \/ \E h \in HostHandles : get_error_info(h)
    \/ \E h \in HostHandles : call_get_obj_rc(h)
    \/ \E h \in HostHandles : call_get_data_ptr(h)
    \/ \E h \in HostHandles : call_get_data_byte_size(h)
    \/ \E k \in {TYPE_I64, -TYPE_I64} : call_get_element_size(k)
    \/ \E h \in HostHandles, d \in BufPtrs : fill_i64_vec(h, d, 1)
    \/ \E h \in HostHandles, d \in BufPtrs : fill_i32_vec(h, d, 1)
    \/ \E h \in HostHandles, d \in BufPtrs : fill_f64_vec(h, d, 1)
    \/ \E h \in Live : view_write(h, 0, 0)

Spec == Init /\ [][Next]_vars

\* Mutation of a vector that has several owners.
NextShare ==
    \/ NoVector /\ init_vector(TYPE_I64, MaxLen)
    \/ \E v \in Vals : NoVector /\ init_i64(v)
    \/ \E h \in Live : IS_VECTOR(h) /\ clone_obj(h)
    \/ \E h \in Live : drop_obj(h)
    \/ \E h \in Live, n \in {1, MaxLen} : fill_i64_vec(h, 1, n)
    \/ \E h \in Live, i \in 0 .. MaxLen - 1, v \in Vals : view_write(h, i, v)
    \/ \E h \in Live, i \in 0 .. MaxLen - 1, a \in Live :
         vec_set_idx(RefTo(h), i, a)

SpecShare == Init /\ [][NextShare]_vars

\* The vector operations, with the views the host holds meanwhile.
NextVec ==
    \/ \E n \in 0 .. MaxLen : NoVector /\ init_vector(TYPE_I64, n)
    \/ NoVector /\ init_i64(1)
    \/ \E h \in Live : IS_VECTOR(h) /\ clone_obj(h)
    \/ \E h \in Live : drop_obj(h)
    \/ \E r \in Refs, a \in HostHandles : vec_set_idx(r, 0, a)
    \/ \E r \in Refs, a \in HostHandles : vec_push(r, a)
    \/ \E r \in Refs, a \in HostHandles : vec_insert(r, 0, a)
    \/ \E r \in Refs, n \in {0, MaxLen} : vec_resize(r, n)
    \/ \E h \in HostHandles, i \in {0, MaxLen} : Free # {} /\ vec_at_idx(h, i)
    \/ \E h \in HostHandles : fill_i64_vec(h, 1, 1)
    \/ \E h \in HostHandles : call_get_data_ptr(h)
    \/ \E h \in HostHandles : call_get_data_byte_size(h)

SpecVec == Init /\ [][NextVec]_vars

\* Errors handed to the host, next to objects that are no errors.
UserMsgs == {"", "CSV content is NULL"}
NextErr ==
    \/ \E code \in ErrCodes, msg \in UserMsgs : raise_error(code, msg)
    \/ init_i64(0)
    \/ init_vector(TYPE_C8, 0)
    \/ \E h \in Live : drop_obj(h)
    \/ \E h \in HostHandles : call_is_obj_error(h)
    \/ \E h \in HostHandles : call_get_error_message(h)

SpecErr == Init /\ [][NextErr]_vars

\* Interning, next to objects the host owns.
InternStrs == {"x", "y", "xy"}
NextSym ==
    \/ \E str \in InternStrs, len \in 0 .. 2 :
         len <= Len(str) /\ intern_symbol(str, len)
    \/ \E id \in 1 .. Len(symtab) : symbol_to_str(id)
    \/ init_i64(0)
    \/ \E h \in Live : clone_obj(h)
    \/ \E h \in Live : drop_obj(h)

SpecSym == Init /\ [][NextSym]_vars

\* CSV ingestion; the host releases each result before the next call.
CsvTexts ==
    {"a,b\n1,2\n3,4\n", "a,b\n", "a,b", "a,b\r\n1,2", "a,b,c\n", "a\n1,2\n"}
CsvBufs ==
    [bytes : CsvTexts, mapped : {TRUE}] \cup [bytes : {"a,b\n"}, mapped : {FALSE}]
NextCsv ==
    \/ \E b \in CsvBufs, n \in {-1, 0} :
         Live = {} /\ read_csv(1, b, n, "none", "null")
    \/ \E b \in CsvBufs, f \in FailPoints(3, TRUE), u \in WildOutcomes :
         Live = {} /\ b.mapped /\ read_csv(1, b, Len(b.bytes), f, u)
    \/ \E n \in {-1, 0, 4} :
         /\ Live = {}
         /\ read_csv(NULL, [bytes |-> "a,b\n", mapped |-> FALSE], n,
                     "none", "null")
    \/ \E h \in Live : drop_obj(h)
    \/ \E h \in HostHandles : call_get_obj_type(h)
    \/ \E h \in HostHandles : call_is_obj_error(h)
    \/ \E h \in HostHandles : call_get_error_message(h)

SpecCsv == Init /\ [][NextCsv]_vars

\* The scan of the buffer: inputs with and without a last newline, with
\* "\r" in the header, with no header text, and lengths shorter than the
\* buffer (the bytes from `len` on are not input).
ScanTexts ==
    {"a,b\n1,2\n3,4\n", "a,b", "a,b\r\n1,2", "a,b\r,c\n", "a\n\n", "\n"}
ScanLens == {1, 4, 6}
ScanFails == {"none", "parser", "table"}
NextScan ==
    \/ \E t \in ScanTexts, f \in ScanFails :
         /\ Live = {}
         /\ read_csv(1, [bytes |-> t, mapped |-> TRUE], Len(t), f, "null")
    \/ \E t \in ScanTexts, n \in ScanLens :
         /\ Live = {}
         /\ n < Len(t)
         /\ read_csv(1, [bytes |-> t, mapped |-> TRUE], n, "none", "null")
    \/ \E n \in {-1, 0} :
         /\ Live = {}
         /\ read_csv(1, [bytes |-> "a,b", mapped |-> TRUE], n, "none", "null")
    \/ Live = {}
         /\ read_csv(NULL, [bytes |-> "a,b", mapped |-> FALSE], 3,
                     "none", "null")
    \/ \E h \in Live : drop_obj(h)
    \/ \E h \in HostHandles : call_get_obj_type(h)

SpecScan == Init /\ [][NextScan]_vars

\* The process from its start: main, then the host's evaluations.
NextMain ==
    \/ \E ok \in BOOLEAN : main_runtime_create(ok)
    \/ \E r \in Handles \cup {NULL_OBJ} : main_selftest(r)
    \/ main_ready
    \/ \E c \in CmdArgs, n \in NameArgs, r \in EvalResults :
         pc = "ready" /\ eval_cmd(c, n, r, -TYPE_I64)
    \/ pc = "ready" /\ get_cmd_counter
    \/ pc = "ready" /\ reset_cmd_counter
    \/ \E h \in Live : pc = "ready" /\ drop_obj(h)
    \/ \E h \in HostHandles : pc = "ready" /\ call_get_obj_type(h)

SpecMain == Start /\ [][NextMain]_vars

\* Formatting, next to the objects the host owns: the host was never handed
\* the handle of the formatted result, only the address of its text.
Owned == Live \ {last_formatted}
NextFmt ==
    \/ \E h \in Owned \cup {NULL} : strof_obj(h)
    \/ \E v \in Vals : init_i64(v)
    \/ \E n \in {0, MaxLen} : init_vector(TYPE_I64, n)
    \/ \E h \in Owned : drop_obj(h)
    \/ \E r \in Free \cup {NULL_OBJ} : eval_cmd(<<"(+ 1 2)">>, <<"a.ray">>, r, -TYPE_I64)
    \/ \E h \in Owned \cup {NULL} : fill_i64_vec(h, 1, 1)
    \/ \E h \in Owned \cup {NULL} : call_get_obj_type(h)

SpecFmt == Init /\ [][NextFmt]_vars

\* Evaluation with results of both sorts: a value, or an Error.
EvalKinds == {-TYPE_I64, TYPE_ERR}
NextEval ==
    \/ \E c \in CmdArgs, n \in NameArgs, r \in EvalResults, t \in EvalKinds :
         eval_cmd(c, n, r, t)
    \/ get_cmd_counter
    \/ reset_cmd_counter
    \/ \E h \in Live : drop_obj(h)
    \/ \E h \in HostHandles : call_is_obj_error(h)
    \/ \E h \in HostHandles : call_get_obj_type(h)

SpecEval == Init /\ [][NextEval]_vars

(***************************************************************************)
(* Claims                                                                  *)
(***************************************************************************)
\* The last call was an evaluate with command text and an absent or empty
\* source name.
LastCallAutoNamed ==
    call.op = "eval_cmd" /\ call.h # NULL /\ call.x \in {0, 1}

ExpectedAutoName ==
    <<"cmd:1", "cmd:2", "cmd:3", "cmd:4", "cmd:5", "cmd:6", "cmd:7", "cmd:8">>

\* C1: the k-th auto-named evaluate since the last reset (or since start) is
\* handed the source name "cmd:k" - so n consecutive ones get "cmd:1" ..
\* "cmd:n" in call order, and the first one after reset_cmd_counter is
\* "cmd:1" again.
C1_AutoNamesInOrder ==
    LastCallAutoNamed =>
        /\ autos \in 1 .. Len(ExpectedAutoName)
        /\ eval_name = ExpectedAutoName[autos]

\* C1 witness: the third auto-named evaluate in a row was just served.
C1_Witness == LastCallAutoNamed /\ autos = 3 /\ eval_name = "cmd:3"

\* C2: the counter changes only by +1 on an auto-named evaluate and to 0 on a
\* reset; a named evaluate, an evaluate without command text and every other
\* export leave it alone; it always equals the number of auto-named
\* evaluations since the last reset, which is what get_cmd_counter returns.
C2_CounterFrame ==
    [][ /\ (call'.op = "eval_cmd" /\ call'.h # NULL /\ call'.x \in {0, 1})
            => cmd_counter' = cmd_counter + 1
        /\ call'.op = "reset_cmd_counter" => cmd_counter' = 0
        /\ ~(call'.op = "eval_cmd" /\ call'.h # NULL /\ call'.x \in {0, 1})
            /\ call'.op # "reset_cmd_counter"
            => cmd_counter' = cmd_counter
        /\ cmd_counter' = autos'
        /\ call'.op = "get_cmd_counter" => call'.ret = autos' ]_vars

\* C2 witness: a named evaluate served while the counter stands at 2.
C2_Witness ==
    call.op = "eval_cmd" /\ call.h # NULL /\ call.x = 2 /\ cmd_counter = 2

Accessors ==
    {"get_obj_type", "get_obj_len", "get_obj_rc", "is_obj_atom",
     "is_obj_vector", "is_obj_error", "is_obj_null", "get_data_ptr",
     "get_data_byte_size", "get_error_info"}

NullSentinel(op) ==
    CASE op = "get_obj_type" -> TYPE_NULL
      [] op \in {"get_obj_len", "get_obj_rc", "get_data_byte_size"} -> 0
      [] op \in {"is_obj_atom", "is_obj_vector", "is_obj_error"} -> B8_FALSE
      [] op = "is_obj_null" -> B8_TRUE
      [] op = "get_data_ptr" -> NULL
      [] op = "get_error_info" -> NULL_OBJ

\* C3: every introspection accessor called with the null handle returns its
\* sentinel (NULL kind, length 0, refcount 0, not atom, not vector, not
\* error, is null, no data pointer, byte size 0, null object for error_info)
\* and changes nothing.
C3_NullHandleSentinels ==
    [][ (call'.op \in Accessors /\ call'.h = NULL)
          => /\ call'.ret = NullSentinel(call'.op)
             /\ UNCHANGED <<heap, mem, cmd_counter, eval_name, fault>>
             /\ wr' = {} ]_vars

\* C3 witness: is_obj_null(NULL) answered true while an object is live.
C3_Witness ==
    call.op = "is_obj_null" /\ call.h = NULL /\ call.ret = B8_TRUE /\ Live # {}

\* C4: for every i8_t kind code k whose negation is an i8_t too,
\* get_element_size(k) = get_element_size(-k).
C4_SizeIgnoresSign ==
    (call.op = "get_element_size" /\ -call.h \in I8)
        => call.ret = get_element_size(-call.h)

\* C4 witness: the I64 atom code was asked for and answered 8.
C4_Witness ==
    call.op = "get_element_size" /\ call.h = -TYPE_I64 /\ call.ret = SizeofI64

\* C5: byte_size is 0 for the null handle and for atoms, and
\* length * element_size(kind) for every other object.
C5_ByteSize ==
    call.op = "get_data_byte_size"
        => call.ret =
             IF call.h = NULL THEN 0
             ELSE IF is_obj_atom(call.h) = B8_TRUE THEN 0
             ELSE get_obj_len(call.h) * get_element_size(get_obj_type(call.h))

\* C5 witness: an I32 vector of two elements answered 8 bytes.
C5_Witness ==
    /\ call.op = "get_data_byte_size"
    /\ call.h # NULL
    /\ get_obj_type(call.h) = TYPE_I32
    /\ get_obj_len(call.h) = 2
    /\ call.ret = 8

\* C6: data_pointer is absent exactly for the null handle and for atoms; for
\* a vector, empty ones included, it is the address of the first payload
\* element; an empty vector has byte size 0.
C6_DataPointer ==
    /\ call.op = "get_data_ptr"
         => /\ call.ret = NULL <=>
                 (IF call.h = NULL THEN TRUE ELSE is_obj_atom(call.h) = B8_TRUE)
            /\ call.ret # NULL => call.ret = ElemAddr(call.h, 0)
    /\ \A h \in Live :
         (is_obj_atom(h) = B8_FALSE /\ get_obj_len(h) = 0)
            => get_data_ptr(h) # NULL /\ get_data_byte_size(h) = 0

\* C6 witness: the data pointer of an empty vector was taken.
C6_Witness ==
    /\ call.op = "get_data_ptr"
    /\ call.h # NULL
    /\ is_obj_atom(call.h) = B8_FALSE
    /\ get_obj_len(call.h) = 0
    /\ call.ret # NULL

\* C7: a store through a zero-copy view at element i is what the object
\* itself then holds at element i; every other element and the header
\* (length, kind, refcount) stay as they were.
C7_ViewAliasesStorage ==
    [][ \A h \in Handles, i \in 0 .. MaxLen, v \in Vals :
          call' = Call("view_write", h, i, v, 0)
            => /\ ElemAt(h, i)' = v
               /\ \A j \in 0 .. heap[h].len - 1 :
                    j # i => ElemAt(h, j)' = ElemAt(h, j)
               /\ heap' = heap ]_vars

\* C7 witness: element 1 of a two-element vector was stored through a view
\* and differs from element 0.
C7_Witness ==
    /\ call.op = "view_write"
    /\ call.x = 1
    /\ ElemAt(call.h, 1) = call.y
    /\ ElemAt(call.h, 0) \in Vals \ {call.y}

FillKind(op) ==
    CASE op = "fill_i64_vec" -> TYPE_I64
      [] op = "fill_i32_vec" -> TYPE_I32
      [] op = "fill_f64_vec" -> TYPE_F64
FillOps == {"fill_i64_vec", "fill_i32_vec", "fill_f64_vec"}
Min(a, b) == IF a < b THEN a ELSE b

\* C8: on a vector of the variant's kind, with a buffer and count >= 0, fill
\* copies the first min(count, length) buffer elements to the same indexes,
\* leaves the elements from min(count, length) on as they were, stores
\* nowhere else (nothing at or beyond index length) and leaves the header,
\* so the length, unchanged.
C8_FillTruncates ==
    [][ \A op \in FillOps, h \in Handles, n \in FillCounts :
          (/\ call' = Call(op, h, 1, n, 0)
           /\ n >= 0
           /\ heap[h].live
           /\ heap[h].type = FillKind(op))
            => LET m == Min(n, heap[h].len)
               IN  /\ \A i \in 0 .. m - 1 : ElemAt(h, i)' = HostBuf[i]
                   /\ \A i \in m .. heap[h].len - 1 :
                        ElemAt(h, i)' = ElemAt(h, i)
                   /\ wr' = {ElemAddr(h, i) : i \in 0 .. m - 1}
                   /\ DOMAIN mem' = DOMAIN mem
                   /\ heap' = heap
                   /\ fault' = fault ]_vars

\* C8 witness: fill_i32_vec with count = length + 1 filled both elements of
\* a two-element I32 vector.
C8_Witness ==
    /\ call.op = "fill_i32_vec"
    /\ call.h # NULL
    /\ call.x # NULL
    /\ call.y = 3
    /\ heap[call.h].type = TYPE_I32
    /\ heap[call.h].len = 2
    /\ ElemAt(call.h, 0) = HostBuf[0]
    /\ ElemAt(call.h, 1) = HostBuf[1]

\* C9: fill stores nothing and changes nothing when the handle is null, the
\* buffer is null, or the target's type tag is not the variant's vector kind
\* (an atom of that kind and a vector of another kind included).
C9_FillNoOp ==
    [][ \A op \in FillOps, h \in Handles \cup {NULL}, d \in BufPtrs,
           n \in FillCounts :
          (/\ call' = Call(op, h, d, n, 0)
           /\ (IF h = NULL \/ d = NULL THEN TRUE
               ELSE heap[h].type # FillKind(op)))
            => /\ wr' = {}
               /\ UNCHANGED <<heap, mem, cmd_counter, eval_name, fault>> ]_vars

\* C9 witness: fill_i64_vec was called on an I64 atom with a buffer.
C9_Witness ==
    /\ call.op = "fill_i64_vec"
    /\ call.h # NULL
    /\ call.x # NULL
    /\ heap[call.h].type = -TYPE_I64

Constructors == {"init_vector", "init_i64"}

\* C10: a fresh object has refcount 1; retain returns the same handle and
\* adds one owner; release takes one owner away, so release right after
\* retain restores the count and leaves the object alive; an object is
\* destroyed exactly by the release that takes its count from 1 to 0, hence
\* every live object has refcount >= 1.
C10_RefCounting ==
    [][ /\ call'.op \in Constructors
            => heap'[call'.ret].live /\ heap'[call'.ret].rc = 1
        /\ \A h \in Handles :
             /\ call' = Call("clone_obj", h, 0, 0, h)
                  => heap'[h] = [heap[h] EXCEPT !.rc = @ + 1]
             /\ (call'.op = "clone_obj" /\ call'.h = h) => call'.ret = h
             /\ (call'.op = "drop_obj" /\ call'.h = h /\ heap[h].rc > 1)
                  => heap'[h] = [heap[h] EXCEPT !.rc = @ - 1]
             /\ (call.op = "clone_obj" /\ call.h = h
                   /\ call'.op = "drop_obj" /\ call'.h = h)
                  => heap'[h].live /\ heap'[h].rc + 1 = heap[h].rc
             /\ (heap[h].live /\ ~heap'[h].live)
                  <=> (call'.op = "drop_obj" /\ call'.h = h /\ heap[h].rc = 1)
             /\ heap'[h].live => heap'[h].rc >= 1 ]_vars

\* C10 witness: an object retained to two owners was released once and lives
\* on with one owner.
C10_Witness ==
    /\ call.op = "drop_obj"
    /\ call.h \in Live
    /\ heap[call.h].rc = 1

\* C11: retain hands back the same handle, and on a vector with two or more
\* owners a fill, a store through a view and a set all store in place: the
\* element read through the handle holds the value written, and no object
\* is created, copied, moved or recounted (no copy-on-write).
C11_SharedMutation ==
    [][ \A h \in Handles :
          /\ (call'.op = "clone_obj" /\ call'.h = h) => call'.ret = h
          /\ (heap[h].live /\ heap[h].rc >= 2 /\ heap[h].type = TYPE_I64)
               => /\ (/\ call'.op = "fill_i64_vec"
                      /\ call'.h = h
                      /\ call'.x # NULL
                      /\ call'.y >= 1)
                       => ElemAt(h, 0)' = HostBuf[0] /\ heap' = heap
                  /\ \A i \in 0 .. MaxLen - 1 :
                       /\ (/\ call'.op = "view_write"
                           /\ call'.h = h
                           /\ call'.x = i)
                            => ElemAt(h, i)' = call'.y /\ heap' = heap
                       /\ (/\ call'.op = "vec_set_idx"
                           /\ call'.h = RefTo(h)
                           /\ call'.x = i)
                            => /\ ElemAt(h, i)' = heap[call'.y].val
                               /\ heap' = heap
                               /\ call'.ret = h ]_vars

\* C11 witness: a fill through a handle of a vector with two owners stored
\* the buffer's first element.
C11_Witness ==
    /\ call.op = "fill_i64_vec"
    /\ call.h \in Live
    /\ heap[call.h].type = TYPE_I64
    /\ heap[call.h].rc = 2
    /\ call.x # NULL
    /\ call.y >= 1
    /\ ElemAt(call.h, 0) = HostBuf[0]

\* C12: error_message always returns a text: "Unknown error" for the null
\* handle and for an object that is no error, the inline message for a user
\* error that has one, "Out of memory" for a user error whose message length
\* is 0, and the canonical name of the code for every other error.
C12_ErrorMessage ==
    call.op = "get_error_message"
      => /\ call.ret # NullStr
         /\ call.ret =
              IF call.h = NULL THEN <<"Unknown error">>
              ELSE IF is_obj_error(call.h) = B8_FALSE THEN <<"Unknown error">>
              ELSE IF heap[call.h].val # EC_USER
                   THEN <<err_name(heap[call.h].val)>>
              ELSE IF heap[call.h].len = 0 THEN <<"Out of memory">>
              ELSE <<mem[AS_C8(call.h)]>>
         /\ call.ret[1] # ""

\* C12 witness: the message of a user error without inline message was
\* asked for.
C12_Witness ==
    /\ call.op = "get_error_message"
    /\ call.h \in Live
    /\ IS_ERR(call.h)
    /\ err_code(call.h) = EC_USER
    /\ heap[call.h].len = 0
    /\ call.ret = <<"Out of memory">>

VecMutators == {"vec_set_idx", "vec_push", "vec_insert", "vec_resize"}

\* C13: set, push, insert and resize called with no reference, or with a
\* reference to a null handle, return the null object and change nothing.
C13_VecNullNoOp ==
    [][ (/\ call'.op \in VecMutators
         /\ (IF call'.h = NULL THEN TRUE ELSE Deref(call'.h) = NULL))
          => /\ call'.ret = NULL_OBJ
             /\ wr' = {}
             /\ UNCHANGED <<heap, mem, cmd_counter, eval_name, fault, csv,
                            symtab>> ]_vars

\* C13 witness: push through a reference to a null handle, with a live value
\* to push, returned the null object.
C13_Witness ==
    /\ call.op = "vec_push"
    /\ call.h = RefTo(NULL)
    /\ call.y \in Live
    /\ call.ret = NULL_OBJ

\* The call just served may move v's buffer or destroys v.
Invalidates(c, h, rc) ==
    \/ c.op \in {"vec_push", "vec_insert", "vec_resize"} /\ c.h = RefTo(h)
    \/ c.op = "drop_obj" /\ c.h = h /\ rc = 1

C19_InternResolve ==
    [][ /\ call'.op = "intern_symbol"
            => /\ call'.ret \in 1 .. Len(symtab')
               /\ symtab'[call'.ret] = call'.y
        /\ call'.op = "symbol_to_str" => call'.ret = <<symtab[call'.h]>>
        /\ Len(symtab') >= Len(symtab)
        /\ \A i \in 1 .. Len(symtab) : symtab'[i] = symtab[i]
        /\ \A i, j \in 1 .. Len(symtab') :
             symtab'[i] = symtab'[j] => i = j ]_vars

\* C19 witness: the first text interned was interned again after another
\* one and got its id back.
C19_Witness ==
    /\ call.op = "intern_symbol"
    /\ call.ret = 1
    /\ Len(symtab) >= 2
    /\ symtab[1] = call.y

\* C20: intern leaves the live objects, their refcounts and their payloads
\* as they were; only the symbol table may have an entry more.
C20_InternTransient ==
    [][ call'.op = "intern_symbol"
          => /\ heap' = heap
             /\ mem' = mem
             /\ UNCHANGED <<cmd_counter, eval_name, fault, csv>> ]_vars

\* C20 witness: intern was served while the host owned an object with two
\* owners.
C20_Witness ==
    /\ call.op = "intern_symbol"
    /\ \E h \in Live : heap[h].rc = 2
    /\ Len(symtab) >= 1

\* C15: parse_csv with no content, or with a byte length <= 0, returns a
\* user Error (never a table); the Error is the only object the call
\* creates, nothing is interned, and the buffer is not read - not even one
\* the module cannot read.
C15_CsvRejectsEmpty ==
    [][ (call'.op = "read_csv" /\ (call'.h = NULL \/ call'.x <= 0))
          => /\ call'.ret \in Free
             /\ heap'[call'.ret].live
             /\ heap'[call'.ret].type = TYPE_ERR
             /\ heap'[call'.ret].val = EC_USER
             /\ heap'[call'.ret].len > 0
             /\ \A h \in Handles \ {call'.ret} : heap'[h] = heap[h]
             /\ csv'.kind[1] = "user_error"
             /\ csv'.names = << >>
             /\ \A o \in DOMAIN csv'.ledger : csv'.ledger[o].alloc = 0
             /\ symtab' = symtab
             /\ fault' = fault ]_vars

\* C15 witness: length 0 with a pointer to memory the module cannot read
\* was answered with an Error.
C15_Witness ==
    /\ call.op = "read_csv"
    /\ call.h # NULL
    /\ call.x = 0
    /\ ~call.y.mapped
    /\ is_obj_error(call.ret) = B8_TRUE

\* The last call was read_csv on a whole readable buffer, no allocation
\* failing.
CsvServed ==
    /\ call.op = "read_csv"
    /\ call.h # NULL
    /\ call.y.mapped
    /\ call.x = Len(call.y.bytes)
    /\ call.y.fail = "none"

Commas(text) ==
    Cardinality({i \in 1 .. Len(text) : SubSeq(text, i, i) = ","})
HeaderOnly(text) ==
    /\ text # ""
    /\ \A i \in 1 .. Len(text) - 1 : SubSeq(text, i, i) # "\n"

\* C16: an input that is a header line only, with or without its newline,
\* gives a table with one column per header field and 0 rows, and the row
\* parser is not invoked.
C16_CsvHeaderOnly ==
    (CsvServed /\ HeaderOnly(call.y.bytes))
      => /\ get_obj_type(call.ret) = TYPE_TABLE
         /\ csv.rows = 0
         /\ Len(csv.names) = Commas(call.y.bytes) + 1
         /\ Len(csv.cols) = Commas(call.y.bytes) + 1
         /\ \A c \in 1 .. Len(csv.cols) : csv.cols[c] = << >>
         /\ ~csv.parsed

\* C16 witness: a header without newline gave a table of two columns.
C16_Witness ==
    /\ CsvServed
    /\ call.y.bytes = "a,b"
    /\ get_obj_type(call.ret) = TYPE_TABLE
    /\ Len(csv.names) = 2

\* The tables expected of the well-formed inputs with data lines: the names,
\* and the texts of each column.
CsvWellFormed == {"a,b\n1,2\n3,4\n", "a,b\r\n1,2"}
CsvExpected(text) ==
    IF text = "a,b\n1,2\n3,4\n"
    THEN [names |-> <<"a", "b">>, cols |-> <<<<"1", "3">>, <<"2", "4">>>>]
    ELSE [names |-> <<"a", "b">>, cols |-> <<<<"1">>, <<"2">>>>]

\* The table read_csv built has the names and the texts expected.
CsvTableAsExpected ==
    LET e == CsvExpected(call.y.bytes)
    IN  /\ get_obj_type(call.ret) = TYPE_TABLE
        /\ [c \in 1 .. Len(csv.names) |-> symtab[csv.names[c]]] = e.names
        /\ csv.rows = Len(e.cols[1])
        /\ csv.cols = e.cols
        /\ csv.parsed

\* C17 as stated: on a well-formed input of a header and n data lines the
\* table has the header fields as column names, n rows, and every column is
\* of CHAR kind and holds the texts of its fields.
C17_CsvColumnsCharKind ==
    (CsvServed /\ call.y.bytes \in CsvWellFormed)
      => /\ CsvTableAsExpected
         /\ \A c \in 1 .. Len(csv.colkinds) : csv.colkinds[c] = TYPE_C8

\* C17 amended: ... every column is a LIST of n elements, declared CHAR to
\* the row parser, whose elements are the texts of its fields.
C17_CsvColumnsListOfText ==
    (CsvServed /\ call.y.bytes \in CsvWellFormed)
      => /\ CsvTableAsExpected
         /\ Len(csv.colkinds) = Len(csv.cols)
         /\ \A c \in 1 .. Len(csv.colkinds) :
              /\ csv.colkinds[c] = TYPE_LIST
              /\ csv.types[c] = TYPE_C8
              /\ Len(csv.cols[c]) = csv.rows

\* C17 witness: the two-row example was parsed.
C17_Witness ==
    /\ CsvServed
    /\ call.y.bytes = "a,b\n1,2\n3,4\n"
    /\ csv.rows = 2
    /\ csv.cols[2] = <<"2", "4">>

\* C18: on every failure path of read_csv each object and buffer allocated
\* in the call was released exactly once, no list slot was released that
\* nobody had stored to, and an Error is returned.
C18_CsvFailureReleasesOnce ==
    (call.op = "read_csv" /\ csv.kind[1] # "table")
      => /\ \A o \in DOMAIN csv.ledger :
              csv.ledger[o].freed = csv.ledger[o].alloc
         /\ csv.wild = 0
         /\ ~fault
         /\ is_obj_error(call.ret) = B8_TRUE

\* An evaluation has just run: main's own check of the evaluator, or an
\* evaluate call with command text.
Evaluated ==
    call.op = "eval_str" \/ (call.op = "eval_cmd" /\ call.h # NULL)

\* C21: whenever an evaluation has run, and whenever the host has been
\* signalled ready, the runtime exists and was created in single-threaded
\* mode; so no evaluation runs on a runtime not configured single-threaded.
C21_SingleThreadedRuntime ==
    (Evaluated \/ pc = "ready")
      => (runtime.created /\ SingleThreaded(runtime))

\* The kind of a kind code: the code without its sign.
KindOf(code) == IF code < 0 THEN -code ELSE code

\* C22: element_size returns 1 for BOOL, BYTE and CHAR, 2 for I16, 4 for
\* I32, DATE and TIME, 8 for I64, SYMBOL, F64 and TIMESTAMP, 16 for GUID,
\* the handle size for LIST and 0 for every other kind code (TABLE, DICT,
\* LAMBDA, NULL and ERROR among them), for atom and vector codes alike.
C22_ElementSizeTable ==
    call.op = "get_element_size"
      => LET k == KindOf(call.h)
         IN  /\ k \in {TYPE_B8, TYPE_U8, TYPE_C8} => call.ret = 1
             /\ k = TYPE_I16 => call.ret = 2
             /\ k \in {TYPE_I32, TYPE_DATE, TYPE_TIME} => call.ret = 4
             /\ k \in {TYPE_I64, TYPE_SYMBOL, TYPE_F64, TYPE_TIMESTAMP}
                  => call.ret = 8
             /\ k = TYPE_GUID => call.ret = 16
             /\ k = TYPE_LIST => call.ret = SizeofObjP
             /\ k \notin TYPE_LIST .. TYPE_C8 => call.ret = 0
             /\ k \in {TYPE_TABLE, TYPE_DICT, TYPE_LAMBDA, TYPE_NULL, TYPE_ERR}
                  => call.ret = 0

\* C22 witness: the TIMESTAMP atom code was asked for and answered 8.
C22_Witness ==
    /\ call.op = "get_element_size"
    /\ call.h = -TYPE_TIMESTAMP
    /\ call.ret = 8

\* C26: fill with count <= 0 (any negative count included) on a vector of
\* the variant's kind stores nothing and leaves the vector as it was; and
\* for every count the number of bytes copied is at least 0 and at most
\* length * element size.
C26_FillNonPositive ==
    [][ \A op \in FillOps, h \in Handles, n \in FillCounts :
          (/\ call' = Call(op, h, 1, n, 0)
           /\ heap[h].live
           /\ heap[h].type = FillKind(op))
            => /\ CopyLen(n, heap[h].len) * sizeof_elem(FillKind(op))
                    \in 0 .. heap[h].len * sizeof_elem(FillKind(op))
               /\ n <= 0 => /\ wr' = {}
                            /\ mem' = mem
                            /\ heap' = heap
                            /\ fault' = fault ]_vars

\* C29: every strof_obj call releases the result of the call before it (held
\* once, so that one release frees it and its text), makes one new result
\* and returns the address of its text; nothing else is made or released.
\* Between two strof_obj calls the binding holds that one result, and its
\* text stays where it is and as it is; after the next call the earlier
\* text is gone.
C29_OneFormattedResult ==
    [][ /\ call'.op = "strof_obj"
            => /\ last_formatted' \in Handles
               /\ heap'[last_formatted'] =
                    Header(TYPE_C8, Len(FmtText(heap, call'.h)), 0)
               /\ call'.ret = AS_C8(last_formatted')
               /\ mem'[call'.ret] = FmtText(heap, call'.h)
               /\ call'.x = last_formatted
               /\ last_formatted # NULL
                    => /\ heap[last_formatted].live
                       /\ heap[last_formatted].rc = 1
                       /\ last_formatted' # last_formatted
                            => /\ ~heap'[last_formatted].live
                               /\ AS_C8(last_formatted) \notin DOMAIN mem'
               /\ \A h \in Handles \ {last_formatted, last_formatted'} :
                    heap'[h] = heap[h]
        /\ call'.op # "strof_obj"
            => /\ last_formatted' = last_formatted
               /\ last_formatted # NULL
                    => /\ heap'[last_formatted] = heap[last_formatted]
                       /\ AS_C8(last_formatted) \in DOMAIN mem'
                       /\ mem'[AS_C8(last_formatted)]
                            = mem[AS_C8(last_formatted)] ]_vars

\* C29 witness: a strof_obj call released the earlier result, which is gone,
\* and holds a new one at another address.
C29_Witness ==
    /\ call.op = "strof_obj"
    /\ call.x # NULL
    /\ call.x # last_formatted
    /\ ~heap[call.x].live
    /\ heap[last_formatted].live
    /\ mem[call.ret] = "null"

\* How often `o` occurs in the sequence `q`.
Occurs(q, o) == Cardinality({i \in 1 .. Len(q) : q[i] = o})

CsvScanned ==
    /\ call.op = "read_csv"
    /\ call.h # NULL
    /\ call.y.mapped
    /\ call.x \in 1 .. Len(call.y.bytes)

\* The input of the call, and what the claims say of it: its newlines, its
\* lines, its header line, and the slices of that line between commas.
CsvInput == SubSeq(call.y.bytes, 1, call.x)
Places(text, ch) == {i \in 1 .. Len(text) : SubSeq(text, i, i) = ch}
TotalLines(text) ==
    Cardinality(Places(text, "\n"))
      + (IF SubSeq(text, Len(text), Len(text)) # "\n" THEN 1 ELSE 0)
HeaderLine(text) ==
    IF Places(text, "\n") = {} THEN text
    ELSE SubSeq(text, 1,
                (CHOOSE i \in Places(text, "\n") :
                   \A j \in Places(text, "\n") : i <= j) - 1)
\* The place of the k-th comma of the line; 0 and Len + 1 bound the line.
CommaPlace(line, k) ==
    IF k = 0 THEN 0
    ELSE IF k > Cardinality(Places(line, ",")) THEN Len(line) + 1
    ELSE CHOOSE i \in Places(line, ",") :
           Cardinality({j \in Places(line, ",") : j < i}) = k - 1
Slice(line, k) ==
    SubSeq(line, CommaPlace(line, k - 1) + 1, CommaPlace(line, k) - 1)
WithoutCr(text) ==
    IF text # "" /\ SubSeq(text, Len(text), Len(text)) = "\r"
    THEN SubSeq(text, 1, Len(text) - 1) ELSE text
ColumnCount(text) == Cardinality(Places(HeaderLine(text), ",")) + 1
HeaderField(text, k) ==
    IF k = ColumnCount(text) THEN WithoutCr(Slice(HeaderLine(text), k))
    ELSE Slice(HeaderLine(text), k)

\* C23: for a buffer with length > 0 the line count is the number of "\n"
\* among the first `length` bytes, plus 1 when the last of them is not
\* "\n"; no byte at or after offset `length` is read to count them; and a
\* table built has that many rows less one.
C23_CsvLineCount ==
    CsvScanned
      => /\ CsvLines(call.y.bytes, call.x) = TotalLines(CsvInput)
         /\ CsvLineReads(call.y.bytes, call.x) \subseteq 0 .. call.x - 1
         /\ csv.kind[1] = "table" => csv.rows = TotalLines(CsvInput) - 1

\* C23 witness: the buffer holds three lines, the length covers the first
\* and a part of the second, and a table of one row was built.
C23_Witness ==
    /\ CsvScanned
    /\ call.y.bytes = "a,b\n1,2\n3,4\n"
    /\ call.x = 6
    /\ csv.kind[1] = "table"
    /\ csv.rows = 1

\* C24: the header line is the bytes before the first "\n" (the whole
\* input without one); the column count is 1 plus the commas of the header
\* line; field i is the i-th slice of the header line between commas; a
\* trailing "\r" is removed from the last field only; and the names of a
\* table built are these fields, interned.
C24_CsvHeaderFields ==
    CsvScanned
      => LET buf == call.y.bytes
             len == call.x
             C   == ColumnCount(CsvInput)
         IN  /\ HeaderLen(buf, len) = Len(HeaderLine(CsvInput))
             /\ CsvCols(buf, len) = C
             /\ HeaderFields(buf, 0, HeaderLen(buf, len), 0, CsvCols(buf, len))
                  = [k \in 1 .. C |-> HeaderField(CsvInput, k)]
             /\ csv.kind[1] = "table"
                  => /\ Len(csv.names) = C
                     /\ \A k \in 1 .. C :
                          symtab[csv.names[k]] = Trim(HeaderField(CsvInput, k))

\* C24 witness: a header of three fields with "\r" after the second one
\* gave the names a, b"\r", c.
C24_Witness ==
    /\ CsvScanned
    /\ call.y.bytes = "a,b\r,c\n"
    /\ call.x = 7
    /\ csv.kind[1] = "table"
    /\ Len(csv.names) = 3
    /\ symtab[csv.names[2]] = "b\r"

\* C25: in every table read_csv returns the name vector and the column
\* list have length C, every column has length total lines - 1 (0 with the
\* header alone), which is the row count table_count gives.
C25_CsvTableShape ==
    (CsvScanned /\ csv.kind[1] = "table")
      => /\ Len(csv.names) = ColumnCount(CsvInput)
         /\ Len(csv.cols) = ColumnCount(CsvInput)
         /\ Len(csv.colkinds) = ColumnCount(CsvInput)
         /\ \A c \in 1 .. Len(csv.cols) :
              Len(csv.cols[c]) = TotalLines(CsvInput) - 1
         /\ csv.rows = TotalLines(CsvInput) - 1
         /\ get_obj_type(call.ret) = TYPE_TABLE
         /\ table_count(call.ret) = TotalLines(CsvInput) - 1

\* C25 witness: a header of two fields and one data line gave two columns
\* of one row.
C25_Witness ==
    /\ CsvScanned
    /\ call.y.bytes = "a,b\r\n1,2"
    /\ call.x = 8
    /\ csv.kind[1] = "table"
    /\ Len(csv.cols) = 2
    /\ Len(csv.cols[2]) = 1

\* C27: an input of length > 0 has at least one line, so read_csv never
\* answers "CSV has no lines"; when no allocation fails, the only user
\* errors are the one for absent content and the one for a length <= 0.
C27_CsvNeverNoLines ==
    call.op = "read_csv"
      => /\ csv.kind # <<"user_error", "CSV has no lines">>
         /\ CsvScanned => CsvLines(call.y.bytes, call.x) >= 1
         /\ (csv.kind[1] = "user_error" /\ call.y.fail = "none")
              => \/ call.h = NULL /\ csv.kind[2] = "CSV content is NULL"
                 \/ /\ call.h # NULL
                    /\ call.x <= 0
                    /\ csv.kind[2] = "CSV length is zero or negative"

\* C27 witness: an input of one byte that is no newline gave a table.
C27_Witness ==
    /\ CsvScanned
    /\ call.x = 1
    /\ CsvInput = "a"
    /\ csv.kind[1] = "table"

\* C28: when no allocation before it fails, the row parser is invoked
\* exactly when there is at least one data line; the start it is handed is
\* the offset right after the first "\n", inside the input, and the length
\* it is handed, length - start, is at least 1.
C28_CsvParserArguments ==
    (CsvScanned /\ call.y.fail \in {"none", "parser", "table"})
      => LET start == FirstLine(call.y.bytes, call.x)
         IN  /\ csv.parsed <=> TotalLines(CsvInput) - 1 >= 1
             /\ csv.parsed
                  => /\ start # NoPos
                     /\ start = Len(HeaderLine(CsvInput)) + 1
                     /\ 0 < start
                     /\ start < call.x
                     /\ call.x - start >= 1

\* C28 witness: the data is one empty line, the last byte of the input: the
\* parser was invoked on a length of 1.
C28_Witness ==
    /\ CsvScanned
    /\ call.y.bytes = "a\n\n"
    /\ call.x = 3
    /\ csv.parsed
    /\ call.x - FirstLine(call.y.bytes, call.x) = 1
====
